---- MODULE Spec2Model ----
(***************************************************************************)
(* DataWiz (src/Main.py): a Streamlit page that loads a CSV, cleans it     *)
(* (column removal, null handling), keeps the cleaned table in             *)
(* st.session_state.df_clean and plots / exports it.                       *)
(*                                                                         *)
(* Two specifications share the variables:                                 *)
(*   Spec    the page under Streamlit's rerun model: every user action     *)
(*           re-executes main top to bottom;                               *)
(*   SpecFn  the helper functions called directly on enumerated inputs.    *)
(***************************************************************************)
EXTENDS Integers, Sequences, FiniteSets, TLC

VARIABLES
    uploaded_file,      \* st.file_uploader value: a file name or "None"
    columns_to_remove,  \* state of the multiselect "Select columns to remove"
    df_clean,           \* st.session_state.df_clean: a table or None
    plot_type,          \* state of the selectbox "Select plot type"
    columns_to_plot,    \* state of the multiselect "Select columns to plot"
    rendered,           \* widgets the last run of main put on the page
    out,                \* what the last run of main showed (or how it failed)
    event,              \* the user action that triggered the last run
    option,             \* state of the selectbox "Choose how to handle null values:"
    lastClean,          \* the upload and request of the last Clean Data run, and
                        \* whether it put back a column that the slot it replaced,
                        \* cleaned from the same upload, had lost
    call                \* SpecFn: the last direct call and its result

vars == <<uploaded_file, columns_to_remove, df_clean, plot_type,
          columns_to_plot, rendered, out, event, option, lastClean, call>>

----------------------------------------------------------------------------
(* Bounds of the enumerated inputs. *)

MaxTextLen == 3     \* longest replacement text typed into the text input
MaxNames == 2       \* longest name list handed to remove_columns directly

----------------------------------------------------------------------------
(* Values.  A cell is a record tagged by kind; NaN is the missing marker. *)

Range(s) == {s[i] : i \in 1..Len(s)}

NaN == [kind |-> "NaN"]
PyInt(n) == [kind |-> "int", int |-> n]
PyStr(s) == [kind |-> "str", str |-> s]
PyFloat(d, f) == [kind |-> "float", digits |-> d, frac |-> f]   \* d / 10^f
ValueError == [kind |-> "ValueError"]
None == [kind |-> "None"]

(* Characters of the replacement text: decimal digits, the point, a letter *)
(* and U+00BD (one half), which str.isnumeric accepts and int() rejects.   *)
Digits == {"0", "1", "5"}
Half == "U+00BD"
Chars == Digits \cup {".", "a", Half}

DigitVal(c) == CASE c = "0" -> 0 [] c = "1" -> 1 [] c = "5" -> 5

Front(s) == SubSeq(s, 1, Len(s) - 1)

RECURSIVE DecimalValue(_)
DecimalValue(s) ==
    IF s = <<>> THEN 0
    ELSE DecimalValue(Front(s)) * 10 + DigitVal(s[Len(s)])

(* str.isnumeric(): non-empty and every character numeric. *)
isnumeric(s) == s # <<>> /\ \A i \in 1..Len(s) : s[i] \in Digits \cup {Half}

(* int(s): a decimal literal, else ValueError. *)
int(s) ==
    IF s # <<>> /\ \A i \in 1..Len(s) : s[i] \in Digits
    THEN PyInt(DecimalValue(s))
    ELSE ValueError

RECURSIVE StripZeros(_)
StripZeros(s) ==
    IF s # <<>> /\ s[Len(s)] = "0" THEN StripZeros(Front(s)) ELSE s

(* float(s): digits with at most one point and at least one digit. *)
float(s) ==
    LET points == {i \in 1..Len(s) : s[i] = "."}
        p == IF points = {} THEN Len(s) + 1 ELSE CHOOSE i \in points : TRUE
        ip == SubSeq(s, 1, p - 1)
        fp == StripZeros(SubSeq(s, p + 1, Len(s)))
    IN  IF /\ Cardinality(points) <= 1
           /\ \A i \in 1..Len(s) : s[i] \in Digits \cup {"."}
           /\ \E i \in 1..Len(s) : s[i] \in Digits
        THEN PyFloat(DecimalValue(ip \o fp), Len(fp))
        ELSE ValueError

----------------------------------------------------------------------------
(* Tables: named columns in order, rows of cells aligned with the columns. *)

Table(cols, rows) == [columns |-> cols, rows |-> rows]

FileNames == {"A.csv", "C.csv"}

(* load_data: the table pd.read_csv yields for each upload.  A.csv is the  *)
(* 3-row, 2-column table with one missing cell; C.csv has another header   *)
(* and a missing cell in each column.                                      *)
load_data(file) ==
    CASE file = "A.csv" ->
            Table(<<"a", "b">>,
                  << <<PyInt(1), PyInt(2)>>,
                     <<NaN,      PyInt(2)>>,
                     <<PyInt(3), PyInt(1)>> >>)
      [] file = "C.csv" ->
            Table(<<"b", "c">>,
                  << <<PyInt(1), NaN>>,
                     <<NaN,      PyInt(5)>> >>)

IndexOf(s, x) == CHOOSE i \in 1..Len(s) : s[i] = x

RemoveAt(s, i) == SubSeq(s, 1, i - 1) \o SubSeq(s, i + 1, Len(s))

(* df.drop(col, axis=1) *)
drop(df, col) ==
    LET i == IndexOf(df.columns, col)
    IN  Table(RemoveAt(df.columns, i),
              [r \in 1..Len(df.rows) |-> RemoveAt(df.rows[r], i)])

NotFound(col) == <<"Column '", col, "' not found in the dataset.">>

(* remove_columns returning at the first name that is not a column, the   *)
(* names after it left unprocessed.                                        *)
RECURSIVE remove_columns_stop(_, _)
remove_columns_stop(df, names) ==
    IF names = <<>> THEN [df |-> df, warnings |-> <<>>]
    ELSE LET col == Head(names)
         IN  IF col \in Range(df.columns)
             THEN remove_columns_stop(drop(df, col), Tail(names))
             ELSE [df |-> df, warnings |-> <<NotFound(col)>>]

(* remove_columns(df, columns_to_remove): the table and the warnings. *)
RECURSIVE remove_columns(_, _)
remove_columns(df, names) ==
    IF names = <<>> THEN [df |-> df, warnings |-> <<>>]
    ELSE LET col == Head(names)
         IN  IF col \in Range(df.columns)
             THEN remove_columns(drop(df, col), Tail(names))
             ELSE LET r == remove_columns(df, Tail(names))
                  IN  [df |-> r.df, warnings |-> <<NotFound(col)>> \o r.warnings]

(* df.isnull().sum().sum() *)
isnull_sum(df) ==
    Cardinality({<<r, c>> \in (1..Len(df.rows)) \X (1..Len(df.columns)) :
                    df.rows[r][c] = NaN})

(* df.dropna() *)
dropna(df) ==
    LET Whole(row) == \A c \in 1..Len(row) : row[c] # NaN
    IN  Table(df.columns, SelectSeq(df.rows, Whole))

(* df.fillna(value) *)
fillna(df, value) ==
    Table(df.columns,
          [r \in 1..Len(df.rows) |->
              [c \in 1..Len(df.columns) |->
                  IF df.rows[r][c] = NaN THEN value ELSE df.rows[r][c]]])

(* Lines 112-114: the value the text input's text is turned into. *)
replace_value(text) ==
    IF isnumeric(text)
    THEN (IF "." \in Range(text) THEN float(text) ELSE int(text))
    ELSE PyStr(text)

NullOptions == <<"Select", "Remove rows with null values", "Replace null values">>

(* handle_null_values(df), the widgets' values given: choice is the       *)
(* selectbox, text the text input, replace the "Replace" button.           *)
handle_null_values(df, choice, text, replace) ==
    IF isnull_sum(df) > 0
    THEN LET warn == <<"Warning: The dataset contains null values.">>
             w0 == {"Choose how to handle null values:"}
         IN  IF choice = "Remove rows with null values"
             THEN [df |-> dropna(df), error |-> "none", widgets |-> w0,
                   messages |-> warn \o <<"Rows with null values have been removed.">>,
                   replace_with |-> None]
             ELSE IF choice = "Replace null values"
             THEN LET v == replace_value(text)
                      w1 == w0 \cup {"Enter the value to replace null values with:"}
                  IN  IF v = ValueError
                      THEN [df |-> df, error |-> "ValueError", widgets |-> w1,
                            messages |-> warn, replace_with |-> v]
                      ELSE IF replace
                      THEN [df |-> fillna(df, v), error |-> "none",
                            widgets |-> w1 \cup {"Replace"},
                            messages |-> warn \o <<"Null values have been replaced.">>,
                            replace_with |-> v]
                      ELSE [df |-> df, error |-> "none",
                            widgets |-> w1 \cup {"Replace"},
                            messages |-> warn, replace_with |-> v]
             ELSE [df |-> df, error |-> "none", widgets |-> w0,
                   messages |-> warn, replace_with |-> None]
    ELSE [df |-> df, error |-> "none", widgets |-> {},
          messages |-> <<>>, replace_with |-> None]

(* df.to_csv(index=False): the header line, then one record per row with   *)
(* a missing cell written as the empty field.  (.encode('utf-8') and the   *)
(* per-dtype number formatting are left to the libraries.)                 *)
convert_df_to_csv(df) ==
    <<df.columns>> \o
    [r \in 1..Len(df.rows) |->
        [c \in 1..Len(df.columns) |->
            IF df.rows[r][c] = NaN THEN PyStr(<<>>) ELSE df.rows[r][c]]]

----------------------------------------------------------------------------
(* plot_visualization *)

PlotTypes == <<"Pairplot", "Barplot", "Scatterplot", "Displot", "Boxplot", "Jointplot">>

(* What one call did: the st.warning text, the seaborn routine invoked and *)
(* the columns handed to it, what fig (the figure of plt.subplots) holds,  *)
(* whether st.pyplot(fig) ran, the st.download_button offered, and the     *)
(* exception that ended the call.                                          *)
PlotResult(warning, routine, args, figure, shown, download, error) ==
    [warning |-> warning, routine |-> routine, args |-> args, figure |-> figure,
     shown |-> shown, download |-> download, error |-> error]

(* Lines 30-31 without the return: the call goes on to show fig. *)
PlotWarning_noreturn(text) == PlotResult(text, "none", <<>>, "empty", TRUE, None, "none")

(* An st.warning followed by return: nothing invoked, shown or offered. *)
PlotWarning(text) == PlotResult(text, "none", <<>>, "empty", FALSE, None, "none")

(* Lines 64-74: show fig and offer it as a PNG. *)
PngDpi == 300
show_and_offer(ptype, routine, args, figure) ==
    PlotResult("none", routine, args, figure, TRUE,
               [file_name |-> <<ptype, ".png">>, mime |-> "image/png",
                format |-> "png", dpi |-> PngDpi],
               "none")

(* Lines 53-55 and 60-62: the routine's own figure is closed, fig is shown *)
(* and the call returns before the download button.                        *)
show_only(routine, args) ==
    PlotResult("none", routine, args, "empty", TRUE, None, "none")

(* The columns are a selection from df.columns (the multiselect of line    *)
(* 144), so every name is a column of df.                                  *)
plot_visualization(df, columns, ptype) ==
    IF Len(columns) < 1
    THEN PlotWarning("Please select at least one column for the visualization.")
    ELSE CASE ptype = "Pairplot" ->
                IF Len(columns) >= 2
                THEN show_and_offer(ptype, "sns.pairplot", columns, "empty")
                ELSE PlotWarning("Please select at least two columns for the pairplot.")
           [] ptype = "Barplot" ->
                IF Len(columns) >= 2
                THEN show_and_offer(ptype, "sns.barplot", <<columns[1], columns[2]>>, "barplot")
                ELSE PlotWarning("Please select exactly two columns for the barplot.")
           [] ptype = "Scatterplot" ->
                IF Len(columns) >= 2
                THEN show_and_offer(ptype, "sns.scatterplot", <<columns[1], columns[2]>>, "scatterplot")
                ELSE PlotWarning("Please select at least two columns for the scatterplot.")
           [] ptype = "Displot" ->
                show_only("sns.displot", <<columns[1]>>)
           [] ptype = "Boxplot" ->
                show_and_offer(ptype, "sns.boxplot", columns, "boxplot")
           [] ptype = "Jointplot" ->
                IF Len(columns) >= 2
                THEN show_only("sns.jointplot", <<columns[1], columns[2]>>)
                ELSE PlotResult("none", "none", <<>>, "empty", FALSE, None, "IndexError")

----------------------------------------------------------------------------
(* main: one run of the script.  w holds what the widgets return in this   *)
(* run; session_df_clean is st.session_state.df_clean at its start.        *)

(* A keyless st.multiselect keeps its selection from the previous run only *)
(* while it is the same widget, i.e. was rendered with the same options.   *)
st_multiselect(stored, prev_options, options) ==
    IF options \in prev_options THEN stored ELSE <<>>

UploadResult(slot, error, widgets, messages, names, cleaned) ==
    [df_clean |-> slot, error |-> error, rendered |-> widgets,
     messages |-> messages, columns_to_remove |-> names, cleaned |-> cleaned]

UploadWidgets == {"Choose a file", "Select columns to remove", "Clean Data"}

(* Lines 128-140 deriving the cleaned table from the stored one when one   *)
(* is stored (incremental cleaning).                                       *)
main_upload_incremental(session_df_clean, w) ==
    IF w.uploaded_file = "None"
    THEN UploadResult(session_df_clean, "none", {"Choose a file"}, <<>>, <<>>, FALSE)
    ELSE LET df == load_data(w.uploaded_file)
             names == st_multiselect(w.columns_to_remove, w.remove_options, df.columns)
         IN  IF w.clean
             THEN LET src == IF session_df_clean = None THEN df ELSE session_df_clean
                      rc == remove_columns(src, names)
                      hn == handle_null_values(rc.df, w.option, w.text, w.replace)
                  IN  IF hn.error # "none"
                      THEN UploadResult(session_df_clean, hn.error,
                                        UploadWidgets \cup hn.widgets,
                                        rc.warnings \o hn.messages, names, FALSE)
                      ELSE UploadResult(hn.df, "none", UploadWidgets \cup hn.widgets,
                                        rc.warnings \o hn.messages, names, TRUE)
             ELSE UploadResult(session_df_clean,
                               IF session_df_clean = None THEN "AttributeError" ELSE "none",
                               UploadWidgets, <<>>, names, FALSE)

(* Lines 128-140 with the slot emptied when no file is uploaded. *)
main_upload_reset(session_df_clean, w) ==
    IF w.uploaded_file = "None"
    THEN UploadResult(None, "none", {"Choose a file"}, <<>>, <<>>, FALSE)
    ELSE LET df == load_data(w.uploaded_file)
             names == st_multiselect(w.columns_to_remove, w.remove_options, df.columns)
         IN  IF w.clean
             THEN LET rc == remove_columns(df, names)
                      hn == handle_null_values(rc.df, w.option, w.text, w.replace)
                  IN  IF hn.error # "none"
                      THEN UploadResult(session_df_clean, hn.error,
                                        UploadWidgets \cup hn.widgets,
                                        rc.warnings \o hn.messages, names, FALSE)
                      ELSE UploadResult(hn.df, "none", UploadWidgets \cup hn.widgets,
                                        rc.warnings \o hn.messages, names, TRUE)
             ELSE UploadResult(session_df_clean,
                               IF session_df_clean = None THEN "AttributeError" ELSE "none",
                               UploadWidgets, <<>>, names, FALSE)

(* Lines 128-140: the upload block.  Line 140 reads .head() of the slot,   *)
(* an AttributeError while the slot is None.                               *)
main_upload(session_df_clean, w) ==
    IF w.uploaded_file = "None"
    THEN UploadResult(session_df_clean, "none", {"Choose a file"}, <<>>, <<>>, FALSE)
    ELSE LET df == load_data(w.uploaded_file)
             names == st_multiselect(w.columns_to_remove, w.remove_options, df.columns)
         IN  IF w.clean
             THEN LET rc == remove_columns(df, names)
                      hn == handle_null_values(rc.df, w.option, w.text, w.replace)
                  IN  IF hn.error # "none"
                      THEN UploadResult(session_df_clean, hn.error,
                                        UploadWidgets \cup hn.widgets,
                                        rc.warnings \o hn.messages, names, FALSE)
                      ELSE UploadResult(hn.df, "none", UploadWidgets \cup hn.widgets,
                                        rc.warnings \o hn.messages, names, TRUE)
             ELSE UploadResult(session_df_clean,
                               IF session_df_clean = None THEN "AttributeError" ELSE "none",
                               UploadWidgets, <<>>, names, FALSE)

PlotsResult(slot, error, widgets, ptype, columns, plot, csv) ==
    [df_clean |-> slot, error |-> error, rendered |-> widgets, plot_type |-> ptype,
     columns_to_plot |-> columns, plot |-> plot, csv |-> csv]

PlotWidgets == {"Select plot type", "Select columns to plot", "Generate Plot"}

CsvDownload(df) ==
    [data |-> convert_df_to_csv(df), file_name |-> "cleaned_data.csv", mime |-> "text/csv"]

(* Lines 142-155 with the plotted columns stored back into the slot. *)
main_plots_reassign(slot, w) ==
    IF slot = None
    THEN PlotsResult(slot, "none", {}, PlotTypes[1], <<>>, None, None)
    ELSE LET columns == st_multiselect(w.columns_to_plot, w.plot_options, slot.columns)
             pv == plot_visualization(slot, columns, w.plot_type)
             kept == remove_columns(slot,
                        SelectSeq(slot.columns, LAMBDA c : c \notin Range(columns))).df
         IN  IF w.generate
             THEN IF pv.error # "none"
                  THEN PlotsResult(slot, pv.error, PlotWidgets, w.plot_type, columns, pv, None)
                  ELSE PlotsResult(kept, "none",
                          PlotWidgets \cup {"Download cleaned data as CSV"}
                              \cup (IF pv.download = None THEN {} ELSE {"Download plot as PNG"}),
                          w.plot_type, columns, pv, CsvDownload(kept))
             ELSE PlotsResult(slot, "none",
                              PlotWidgets \cup {"Download cleaned data as CSV"},
                              w.plot_type, columns, None, CsvDownload(slot))

(* Lines 142-155: the plot and export block, slot being the session's     *)
(* df_clean after the upload block.                                        *)
main_plots(slot, w) ==
    IF slot = None
    THEN PlotsResult(slot, "none", {}, PlotTypes[1], <<>>, None, None)
    ELSE LET columns == st_multiselect(w.columns_to_plot, w.plot_options, slot.columns)
             pv == plot_visualization(slot, columns, w.plot_type)
         IN  IF w.generate
             THEN IF pv.error # "none"
                  THEN PlotsResult(slot, pv.error, PlotWidgets, w.plot_type, columns, pv, None)
                  ELSE PlotsResult(slot, "none",
                          PlotWidgets \cup {"Download cleaned data as CSV"}
                              \cup (IF pv.download = None THEN {} ELSE {"Download plot as PNG"}),
                          w.plot_type, columns, pv, CsvDownload(slot))
             ELSE PlotsResult(slot, "none",
                              PlotWidgets \cup {"Download cleaned data as CSV"},
                              w.plot_type, columns, None, CsvDownload(slot))

NullSelect == "Choose how to handle null values:"

(* What a run leaves: u from the upload block, p from the plot block.  A   *)
(* widget the run did not render loses its state.                          *)
main_finish(u, p, w) ==
    [df_clean |-> p.df_clean,
     error |-> p.error,
     rendered |-> u.rendered \cup p.rendered,
     messages |-> u.messages,
     columns_to_remove |-> u.columns_to_remove,
     option |-> IF NullSelect \in u.rendered THEN w.option ELSE NullOptions[1],
     cleaned |-> u.cleaned,
     plot_type |-> p.plot_type,
     columns_to_plot |-> p.columns_to_plot,
     plot |-> p.plot,
     csv |-> p.csv]

(* Line 142 on: reached unless the upload block raised. *)
main_after_upload(u, w) ==
    main_finish(u,
                IF u.error = "none"
                THEN main_plots(u.df_clean, w)
                ELSE PlotsResult(u.df_clean, u.error, {}, PlotTypes[1], <<>>, None, None),
                w)

(* main(): the upload block, then, unless it raised, the plot block. *)
main(session_df_clean, w) ==
    main_after_upload(main_upload(session_df_clean, w), w)

----------------------------------------------------------------------------
(* The page under the rerun model: a user action changes one widget and    *)
(* main runs once, top to bottom.  A button is TRUE in that run only.      *)

(* What the widgets hold before the action. The replacement text input and *)
(* the "Replace" button are drawn inside the Clean Data branch only after  *)
(* the selectbox reads "Replace null values" (ReplaceNeverRendered shows   *)
(* no run gets there), so they return their defaults.                      *)
Stored ==
    [uploaded_file |-> uploaded_file,
     columns_to_remove |-> columns_to_remove,
     remove_options |-> IF "Select columns to remove" \in rendered
                        THEN {load_data(uploaded_file).columns} ELSE {},
     clean |-> FALSE,
     option |-> option,
     text |-> <<>>,
     replace |-> FALSE,
     plot_type |-> plot_type,
     columns_to_plot |-> columns_to_plot,
     plot_options |-> IF "Select columns to plot" \in rendered
                      THEN {df_clean.columns} ELSE {},
     generate |-> FALSE]

Rerun(ev, w) ==
    \E m \in {main(df_clean, w)} :
        /\ uploaded_file' = w.uploaded_file
        /\ columns_to_remove' = m.columns_to_remove
        /\ df_clean' = m.df_clean
        /\ plot_type' = m.plot_type
        /\ columns_to_plot' = m.columns_to_plot
        /\ option' = m.option
        /\ rendered' = m.rendered
        /\ out' = [error |-> m.error, messages |-> m.messages,
                   plot |-> m.plot, csv |-> m.csv]
        /\ event' = ev
        /\ lastClean' = IF m.cleaned
                        THEN [file |-> w.uploaded_file,
                              names |-> m.columns_to_remove,
                              option |-> w.option,
                              restored |->
                                  /\ df_clean # None
                                  /\ lastClean.file = w.uploaded_file
                                  /\ Range(m.df_clean.columns) \ Range(df_clean.columns) # {}]
                        ELSE lastClean
        /\ UNCHANGED call

(* Selections a multiselect over cols can hold: names in click order. *)
Selections(cols) ==
    {s \in UNION {[1..n -> Range(cols)] : n \in 0..Len(cols)} :
        \A i, j \in 1..Len(s) : i # j => s[i] # s[j]}

Upload(f) ==
    /\ f # uploaded_file
    /\ Rerun([type |-> "Upload"], [Stored EXCEPT !.uploaded_file = f])

SelectColumnsToRemove ==
    /\ "Select columns to remove" \in rendered
    /\ \E sel \in Selections(load_data(uploaded_file).columns) :
        /\ sel # columns_to_remove
        /\ Rerun([type |-> "SelectColumnsToRemove"], [Stored EXCEPT !.columns_to_remove = sel])

ClickCleanData ==
    /\ "Clean Data" \in rendered
    /\ Rerun([type |-> "CleanData"], [Stored EXCEPT !.clean = TRUE])

SelectNullOption(o) ==
    /\ NullSelect \in rendered
    /\ o # option
    /\ Rerun([type |-> "SelectNullOption", chosen |-> o], [Stored EXCEPT !.option = o])

SelectPlotType(k) ==
    /\ "Select plot type" \in rendered
    /\ k # plot_type
    /\ Rerun([type |-> "SelectPlotType"], [Stored EXCEPT !.plot_type = k])

SelectColumnsToPlot ==
    /\ "Select columns to plot" \in rendered
    /\ \E sel \in Selections(df_clean.columns) :
        /\ sel # columns_to_plot
        /\ Rerun([type |-> "SelectColumnsToPlot"], [Stored EXCEPT !.columns_to_plot = sel])

ClickGeneratePlot ==
    /\ "Generate Plot" \in rendered
    /\ Rerun([type |-> "GeneratePlot"], [Stored EXCEPT !.generate = TRUE])

ClickDownloadCSV ==
    /\ "Download cleaned data as CSV" \in rendered
    /\ Rerun([type |-> "DownloadCSV"], Stored)

ClickDownloadPNG ==
    /\ "Download plot as PNG" \in rendered
    /\ Rerun([type |-> "DownloadPNG"], Stored)

(* The first run of a new session: nothing uploaded, line 126 sets the     *)
(* slot to None.                                                           *)
Init ==
    /\ uploaded_file = "None"
    /\ columns_to_remove = <<>>
    /\ df_clean = None
    /\ plot_type = PlotTypes[1]
    /\ columns_to_plot = <<>>
    /\ option = NullOptions[1]
    /\ rendered = {"Choose a file"}
    /\ out = [error |-> "none", messages |-> <<>>, plot |-> None, csv |-> None]
    /\ event = [type |-> "Start"]
    /\ lastClean = None
    /\ call = None

Next ==
    \/ \E f \in FileNames \cup {"None"} : Upload(f)
    \/ SelectColumnsToRemove
    \/ ClickCleanData
    \/ \E o \in Range(NullOptions) : SelectNullOption(o)
    \/ \E k \in Range(PlotTypes) : SelectPlotType(k)
    \/ SelectColumnsToPlot
    \/ ClickGeneratePlot
    \/ ClickDownloadCSV
    \/ ClickDownloadPNG

Spec == Init /\ [][Next]_vars

----------------------------------------------------------------------------
(* The helper functions called directly. *)

Names == {"a", "b", "c", "zz"}

NameLists ==
    {s \in UNION {[1..n -> Names] : n \in 0..MaxNames} :
        \A i, j \in 1..Len(s) : i # j => s[i] # s[j]}

Texts == UNION {[1..n -> Chars] : n \in 0..MaxTextLen}

(* The argument lists the calls are made on. *)
RemoveColumnsCalls ==
    {[fn |-> "remove_columns", df |-> load_data(f), names |-> names, result |-> None] :
        f \in FileNames, names \in NameLists}

HandleNullValuesCalls ==
    {[fn |-> "handle_null_values", df |-> remove_columns(load_data(f), names).df,
      choice |-> choice, text |-> text, replace |-> replace, result |-> None] :
        f \in FileNames, names \in Selections(<<"a">>), choice \in Range(NullOptions),
        text \in Texts, replace \in BOOLEAN}

InitFn ==
    /\ uploaded_file = "None"
    /\ columns_to_remove = <<>>
    /\ df_clean = None
    /\ plot_type = PlotTypes[1]
    /\ columns_to_plot = <<>>
    /\ option = NullOptions[1]
    /\ rendered = {}
    /\ out = None
    /\ event = None
    /\ lastClean = None
    /\ call \in RemoveColumnsCalls \cup HandleNullValuesCalls

CallRemoveColumns ==
    /\ call.fn = "remove_columns"
    /\ call.result = None
    /\ call' = [call EXCEPT !.result = remove_columns(call.df, call.names)]
    /\ UNCHANGED <<uploaded_file, columns_to_remove, df_clean, plot_type,
                   columns_to_plot, rendered, out, event, option, lastClean>>

CallHandleNullValues ==
    /\ call.fn = "handle_null_values"
    /\ call.result = None
    /\ call' = [call EXCEPT !.result =
                    handle_null_values(call.df, call.choice, call.text, call.replace)]
    /\ UNCHANGED <<uploaded_file, columns_to_remove, df_clean, plot_type,
                   columns_to_plot, rendered, out, event, option, lastClean>>

NextFn == CallRemoveColumns \/ CallHandleNullValues

SpecFn == InitFn /\ [][NextFn]_vars

----------------------------------------------------------------------------
(* Properties. *)

(* The table T without the columns named in S: the other columns in their  *)
(* order, every row kept with its cells under those columns.               *)
Without(T, S) ==
    LET keep == SelectSeq(T.columns, LAMBDA c : c \notin S)
    IN  Table(keep,
              [r \in 1..Len(T.rows) |->
                  [i \in 1..Len(keep) |-> T.rows[r][IndexOf(T.columns, keep[i])]]])

MinColumns(kind) == IF kind \in {"Displot", "Boxplot"} THEN 1 ELSE 2

Generated == event.type = "GeneratePlot"

(* C1: a Generate Plot with a non-empty selection shorter than the kind's  *)
(* minimum ends with a warning, shows and offers nothing and raises        *)
(* nothing.                                                                *)
ShortSelectionWarns ==
    (Generated /\ columns_to_plot # <<>>
               /\ Len(columns_to_plot) < MinColumns(plot_type))
    => /\ out.error = "none"
       /\ out.plot.warning # "none"
       /\ ~out.plot.shown
       /\ out.plot.download = None

(* C2: once the user has pressed Clean Data and chosen "Remove rows with   *)
(* null values", the slot holds a table without missing cells.             *)
CleanThenPolicyApplied ==
    (event.type = "SelectNullOption"
        /\ event.chosen = "Remove rows with null values")
    => (df_clean # None /\ isnull_sum(df_clean) = 0)

(* C3: while the slot is absent, a run of main raises nothing. *)
NoSlotRerunCompletes ==
    df_clean = None => out.error = "none"

(* C4: a Generate Plot whose selection meets the kind's minimum shows the  *)
(* figure and offers it as the PNG named after the kind.                   *)
SuccessfulPlotOffersPng ==
    (Generated /\ Len(columns_to_plot) >= MinColumns(plot_type))
    => /\ out.error = "none"
       /\ out.plot.shown
       /\ out.plot.download # None
       /\ out.plot.download.file_name = <<plot_type, ".png">>
       /\ out.plot.download.mime = "image/png"

(* The three-way rule: an integer for digits only, else a float for        *)
(* numeric text, else the text.                                            *)
ThreeWay(text) ==
    IF text # <<>> /\ Range(text) \subseteq Digits THEN PyInt(DecimalValue(text))
    ELSE IF float(text) # ValueError THEN float(text)
    ELSE PyStr(text)

(* C5: handle_null_values with "Replace null values" derives the           *)
(* replacement from the text (here of ASCII characters) by the three-way   *)
(* rule, and on Replace that value stands in every missing cell.           *)
ReplacementThreeWayRule ==
    (call.fn = "handle_null_values" /\ call.result # None
        /\ call.choice = "Replace null values" /\ isnull_sum(call.df) > 0
        /\ Half \notin Range(call.text))
    => /\ call.result.error = "none"
       /\ call.result.replace_with = ThreeWay(call.text)
       /\ call.replace =>
            /\ Len(call.result.df.rows) = Len(call.df.rows)
            /\ \A r \in 1..Len(call.df.rows), c \in 1..Len(call.df.columns) :
                  call.result.df.rows[r][c] =
                      IF call.df.rows[r][c] = NaN THEN ThreeWay(call.text)
                      ELSE call.df.rows[r][c]

(* C6: remove_columns(T, S) returns T without the columns named in S,      *)
(* order and rows kept, and warns once for each name in S that is not a    *)
(* column of T and for no other name.                                      *)
RemoveColumnsContract ==
    (call.fn = "remove_columns" /\ call.result # None)
    => LET T == call.df
           S == Range(call.names)
           R == call.result
       IN  /\ Range(R.df.columns) = Range(T.columns) \ (S \cap Range(T.columns))
           /\ R.df = Without(T, S)
           /\ Range(R.warnings) = {NotFound(n) : n \in S \ Range(T.columns)}
           /\ Len(R.warnings) = Cardinality(S \ Range(T.columns))

RemoveColumnsMixed ==
    /\ call.fn = "remove_columns" /\ call.result # None
    /\ Range(call.names) \cap Range(call.df.columns) # {}
    /\ Range(call.names) \ Range(call.df.columns) # {}
    /\ Len(call.result.df.columns) = Len(call.df.columns) - 1

(* C7: the slot is the raw table of the upload of the last Clean Data run  *)
(* cleaned by that run's request alone.                                    *)
CleanFromFreshUpload ==
    df_clean # None
    => /\ lastClean # None
       /\ LET raw == Without(load_data(lastClean.file), Range(lastClean.names))
          IN  df_clean =
                IF lastClean.option = "Remove rows with null values"
                THEN Table(raw.columns,
                           SelectSeq(raw.rows, LAMBDA row : NaN \notin Range(row)))
                ELSE raw

RemovedColumnBackAgain ==
    /\ event.type = "CleanData"
    /\ df_clean # None
    /\ lastClean.restored

(* C8: with a table in the slot, a Generate Plot run and a CSV export run  *)
(* leave the slot as it was.                                               *)
PlotAndExportKeepSlot ==
    [][(df_clean # None /\ event'.type \in {"GeneratePlot", "DownloadCSV"})
          => df_clean' = df_clean]_vars

PlottedWithSlot ==
    /\ Generated
    /\ df_clean # None
    /\ out.plot.shown

(* C9: a Generate Plot with no column selected warns "select at least one  *)
(* column", invokes no routine, shows nothing and offers nothing.          *)
EmptySelectionWarns ==
    (Generated /\ columns_to_plot = <<>>)
    => /\ out.error = "none"
       /\ out.plot.warning = "Please select at least one column for the visualization."
       /\ out.plot.routine = "none"
       /\ ~out.plot.shown
       /\ out.plot.download = None

EmptySelectionGenerated ==
    /\ Generated
    /\ columns_to_plot = <<>>
    /\ plot_type = "Boxplot"

(* C10: a slot that holds a table keeps holding one, only a Clean Data run *)
(* changes it, and the export reads the slot.                              *)
SlotMonotone ==
    [][/\ df_clean # None => df_clean' # None
       /\ event'.type # "CleanData" => df_clean' = df_clean
       /\ out'.csv # None => out'.csv.data = convert_df_to_csv(df_clean')]_vars

SlotSurvivesNewUpload ==
    /\ event.type = "Upload"
    /\ uploaded_file = "C.csv"
    /\ df_clean # None
    /\ lastClean.file = "A.csv"
    /\ out.csv # None

(* No run renders the replacement text input or the "Replace" button, and  *)
(* the selectbox reads "Select" whenever a run starts.                     *)
ReplaceNeverRendered ==
    /\ "Replace" \notin rendered
    /\ "Enter the value to replace null values with:" \notin rendered
    /\ option = NullOptions[1]

(* No Clean Data run drops a row or fills a cell: the slot has the rows    *)
(* and the missing cells of the raw table under the columns it keeps.      *)
NullPolicyNeverApplied ==
    df_clean # None
    => /\ Len(df_clean.rows) = Len(load_data(lastClean.file).rows)
       /\ isnull_sum(df_clean) =
            isnull_sum(Without(load_data(lastClean.file), Range(lastClean.names)))

====
